---- MODULE Spec2Model ----
(***************************************************************************)
(* Name-dispatch tool calling of src/3-tool.ipynb: a list of tools, the    *)
(* dict built from it by name, the JSON decision of the chat model, the    *)
(* invocation of the chosen tool and the rendering of the tool catalog.    *)
(* Python values are tagged records; texts are sequences of tokens.        *)
(***************************************************************************)
EXTENDS Integers, Sequences, FiniteSets, TLC

VARIABLES tools, op, arg, result, calls, running

vars == <<tools, op, arg, result, calls, running>>

\* Longest list of tools explored.
MaxTools == 3

\* Calls of chain.invoke that may be in flight at once.
NumDispatchers == 2

(***************************************************************************)
(* Python / JSON values                                                    *)
(***************************************************************************)
JNull == [t |-> "null"]
JStr(s) == [t |-> "str", s |-> s]
JObj(m) == [t |-> "obj", m |-> m]

IsStr(v) == v.t = "str"
IsObj(v) == v.t = "obj"

\* A call that returned v / a call that raised.
Ok(v) == [ok |-> TRUE, v |-> v]
KeyError(k) == [ok |-> FALSE, err |-> "KeyError", key |-> k]
ValidationError(es) == [ok |-> FALSE, err |-> "ValidationError", errors |-> es]
OutputParserException == [ok |-> FALSE, err |-> "OutputParserException"]
RuntimeError(msg) == [ok |-> FALSE, err |-> "RuntimeError", msg |-> msg]

(***************************************************************************)
(* The tools                                                               *)
(***************************************************************************)
negative_comment ==
    [name |-> "negative_comment",
     description |-> "Give negative comment to this game.",
     params |-> <<[name |-> "game", type |-> "str"]>>,
     ret |-> "str",
     func |-> "negative"]

positive_comment ==
    [name |-> "positive_comment",
     description |-> "Give positive comment to this game.",
     params |-> <<[name |-> "game", type |-> "str"]>>,
     ret |-> "str",
     func |-> "positive"]

\* A second function decorated under the name negative_comment: @tool takes
\* the tool's name from the function's name, so a redefinition gives a
\* different tool with the same name.
negative_comment_redefined ==
    [name |-> "negative_comment",
     description |-> "Give positive comment to this game.",
     params |-> <<[name |-> "game", type |-> "str"]>>,
     ret |-> "str",
     func |-> "positive"]

ToolPool == {negative_comment, positive_comment, negative_comment_redefined}

\* A tool that is no mock: its function calls a service and raises when the
\* service fails.
translate_comment ==
    [name |-> "translate_comment",
     description |-> "Translate the comment to this game.",
     params |-> <<[name |-> "game", type |-> "str"]>>,
     ret |-> "str",
     func |-> "raising"]

ToolPoolWithFailing == ToolPool \cup {translate_comment}

\* {game} in an f-string: str(game).
Format(v) == IF IsStr(v) THEN v.s ELSE "None"

\* The body of the decorated function, on its keyword arguments.
FuncBody(func, kwargs) ==
    IF func = "negative"
    THEN Format(kwargs["game"]) \o " seems not better than Genshin Impact..."
    ELSE Format(kwargs["game"]) \o " is the best game in the world !!!"

\* A call of the decorated function: what it returns, or what it raises.
FuncCall(func, kwargs) ==
    IF func = "raising" THEN RuntimeError("service unavailable")
    ELSE Ok(JStr(FuncBody(func, kwargs)))

ParamNames(tool) == {tool.params[i].name : i \in DOMAIN tool.params}

\* A value of the annotated type (game: str).
HasType(v, type) == type = "str" /\ IsStr(v)

(***************************************************************************)
(* Model output: the decisions                                             *)
(***************************************************************************)
ToolNames == {"negative_comment", "positive_comment", "translate_comment"}
ArgKeys == {"game", "lang"}
ArgVals == {JStr("Zelda"), JStr("DotA2"), JNull}
ArgMaps == UNION {[K -> ArgVals] : K \in SUBSET ArgKeys}

Decision(n, a) == JObj(("name" :> JStr(n)) @@ ("arguments" :> JObj(a)))
Decisions == {Decision(n, a) : n \in ToolNames, a \in ArgMaps}

ToolName(d) == d.m["name"].s
Arguments(d) == d.m["arguments"].m

(***************************************************************************)
(* tool_chain                                                              *)
(***************************************************************************)
Names(ts) == {ts[i].name : i \in DOMAIN ts}

Max(S) == CHOOSE x \in S : \A y \in S : y <= x
Min(S) == CHOOSE x \in S : \A y \in S : x <= y

ToolMapFirstWins(ts) ==
    [n \in Names(ts) |-> ts[Min({i \in DOMAIN ts : ts[i].name = n})]]

\* tool_map = {tool.name: tool for tool in tools}: a later tool of the same
\* name replaces the earlier one.
ToolMap(ts) ==
    [n \in Names(ts) |-> ts[Max({i \in DOMAIN ts : ts[i].name = n})]]

\* Mutants of the subscript: a default instead of the KeyError, and a match
\* on the description or on the name's letters.
GetItemDefault(tool_map, key) ==
    IF key \in DOMAIN tool_map THEN Ok(tool_map[key])
    ELSE IF DOMAIN tool_map = {} THEN KeyError(key)
    ELSE Ok(tool_map[CHOOSE n \in DOMAIN tool_map : TRUE])

Lower(s) ==
    IF s = "Negative_Comment" THEN "negative_comment"
    ELSE IF s = "Positive_Comment" THEN "positive_comment"
    ELSE s

GetItemFuzzy(tool_map, key) ==
    LET hit == {n \in DOMAIN tool_map :
                    n = Lower(key) \/ tool_map[n].description = key}
    IN IF hit = {} THEN KeyError(key)
       ELSE Ok(tool_map[CHOOSE n \in hit : TRUE])

\* tool_map[key]
GetItem(tool_map, key) ==
    IF key \in DOMAIN tool_map THEN Ok(tool_map[key]) ELSE KeyError(key)

\* itemgetter(key)(obj) on a dict
ItemGetter(key, obj) ==
    IF key \in DOMAIN obj.m THEN Ok(obj.m[key]) ELSE KeyError(key)

\* The tool's argument schema applied to a dict: every declared parameter is
\* required and typed, undeclared keys are dropped.
ParseInput(tool, tool_input) ==
    LET missing == {[loc |-> p, msg |-> "field required"] :
                        p \in ParamNames(tool) \ DOMAIN tool_input}
        badtype == {[loc |-> tool.params[i].name,
                     msg |-> "none is not an allowed value"] :
                        i \in {j \in DOMAIN tool.params :
                                 /\ tool.params[j].name \in DOMAIN tool_input
                                 /\ ~HasType(tool_input[tool.params[j].name],
                                             tool.params[j].type)}}
    IN IF missing \cup badtype # {}
       THEN ValidationError(missing \cup badtype)
       ELSE Ok([k \in ParamNames(tool) \cap DOMAIN tool_input |-> tool_input[k]])

\* chosen_tool.invoke(arguments): validate, then call the function once.
\* Returns the outcome and the calls made of tool functions.
ToolInvoke(tool, tool_input) ==
    LET parsed == ParseInput(tool, tool_input)
    IN IF ~parsed.ok
       THEN [out |-> parsed, calls |-> <<>>]
       ELSE [out |-> FuncCall(tool.func, parsed.v),
             calls |-> <<[func |-> tool.func, kwargs |-> parsed.v]>>]

\* RunnableLambda(tool_chain) on model_output: tool_chain picks the tool and
\* returns itemgetter('arguments') | chosen_tool, which then runs on the same
\* model_output.
ToolChain(ts, model_output) ==
    LET tool_map == ToolMap(ts)
        name == ItemGetter("name", model_output)
        chosen_tool == GetItem(tool_map, name.v.s)
        arguments == ItemGetter("arguments", model_output)
    IN IF ~name.ok THEN [out |-> name, calls |-> <<>>]
       ELSE IF ~chosen_tool.ok THEN [out |-> chosen_tool, calls |-> <<>>]
       ELSE IF ~arguments.ok THEN [out |-> arguments, calls |-> <<>>]
       ELSE ToolInvoke(chosen_tool.v, arguments.v.m)

AssignClobber(input, out) ==
    JObj([k \in DOMAIN input.m \cup {"output"} |-> out])

\* RunnablePassthrough.assign(output=...): {**input, 'output': out}
Assign(input, out) == JObj(("output" :> out) @@ input.m)

(***************************************************************************)
(* JsonOutputParser                                                        *)
(* A text is a sequence of tokens: punctuation and literals of JSON,       *)
(* string literals (always closed), whitespace, the code fence and words. *)
(***************************************************************************)
P(c) == [k |-> "p", v |-> c]
S(x) == [k |-> "s", v |-> x]
W(c) == [k |-> "w", v |-> c]
X(w) == [k |-> "x", v |-> w]
\* Three backticks.
Fence == [k |-> "f", v |-> "fence"]

JSONDecodeError == [ok |-> FALSE, err |-> "JSONDecodeError"]

\* Keys in the order the model writes them.
KeyOrder == <<"name", "arguments", "game", "lang", "output">>

RECURSIVE Dumps(_)
\* The JSON text of a value: {"name": "...", "arguments": {"game": "..."}}
Dumps(v) ==
    IF v.t = "null" THEN <<P("null")>>
    ELSE IF v.t = "str" THEN <<S(v.s)>>
    ELSE LET keys == SelectSeq(KeyOrder, LAMBDA key : key \in DOMAIN v.m)
             member[i \in 0..Len(keys)] ==
                 IF i = 0 THEN <<>>
                 ELSE member[i - 1]
                        \o (IF i = 1 THEN <<>> ELSE <<P(","), W(" ")>>)
                        \o <<S(keys[i]), P(":"), W(" ")>> \o Dumps(v.m[keys[i]])
         IN <<P("{")>> \o member[Len(keys)] \o <<P("}")>>

RECURSIVE SkipWs(_, _)
\* The first position from i on that holds no whitespace.
SkipWs(s, i) ==
    IF i <= Len(s) /\ s[i].k = "w" THEN SkipWs(s, i + 1) ELSE i

NoValue == [ok |-> FALSE, v |-> JNull, i |-> 0]

RECURSIVE ScanValue(_, _), ScanMembers(_, _, _)
\* The scanner of json: the value that starts at position i, and where it ends.
ScanValue(s, i) ==
    LET j == SkipWs(s, i)
    IN IF j > Len(s) THEN NoValue
       ELSE IF s[j] = P("null") THEN [ok |-> TRUE, v |-> JNull, i |-> j + 1]
       ELSE IF s[j].k = "s" THEN [ok |-> TRUE, v |-> JStr(s[j].v), i |-> j + 1]
       ELSE IF s[j] = P("{")
       THEN LET b == SkipWs(s, j + 1)
            IN IF b <= Len(s) /\ s[b] = P("}")
               THEN [ok |-> TRUE, v |-> JObj(<<>>), i |-> b + 1]
               ELSE ScanMembers(s, b, <<>>)
       ELSE NoValue

\* "key": value pairs up to the closing brace; a repeated key keeps the
\* last value.
ScanMembers(s, i, m) ==
    IF i > Len(s) \/ s[i].k # "s" THEN NoValue
    ELSE LET c == SkipWs(s, i + 1)
         IN IF c > Len(s) \/ s[c] # P(":") THEN NoValue
            ELSE LET val == ScanValue(s, c + 1)
                     e == SkipWs(s, val.i)
                     m2 == (s[i].v :> val.v) @@ m
                 IN IF ~val.ok \/ e > Len(s) THEN NoValue
                    ELSE IF s[e] = P("}")
                    THEN [ok |-> TRUE, v |-> JObj(m2), i |-> e + 1]
                    ELSE IF s[e] = P(",")
                    THEN ScanMembers(s, SkipWs(s, e + 1), m2)
                    ELSE NoValue

\* json.loads: one value and nothing but whitespace around it.
JsonLoads(s) ==
    LET r == ScanValue(s, 1)
    IN IF r.ok /\ SkipWs(s, r.i) > Len(s) THEN Ok(r.v) ELSE JSONDecodeError

RECURSIVE OpenBraces(_, _, _)
\* The stack of closers after the tokens from i on, or -1 when a closer
\* comes without its opener.
OpenBraces(s, i, depth) ==
    IF i > Len(s) THEN depth
    ELSE IF s[i] = P("{") THEN OpenBraces(s, i + 1, depth + 1)
    ELSE IF s[i] = P("}")
    THEN IF depth > 0 THEN OpenBraces(s, i + 1, depth - 1) ELSE -1
    ELSE OpenBraces(s, i + 1, depth)

Closers(n) == [i \in 1..n |-> P("}")]

\* parse_partial_json: the text as it is; else the text with its open
\* objects closed, dropping tokens from the end until it parses; None for
\* a closer without opener.
ParsePartialJson(s) ==
    LET whole == JsonLoads(s)
        depth == OpenBraces(s, 1, 0)
        fits == {n \in 1..Len(s) :
                    JsonLoads(SubSeq(s, 1, n) \o Closers(depth)).ok}
    IN IF whole.ok THEN whole
       ELSE IF depth < 0 THEN Ok(JNull)
       ELSE IF fits # {}
       THEN JsonLoads(SubSeq(s, 1, Max(fits)) \o Closers(depth))
       ELSE JSONDecodeError

Strippable(tok, chars) == tok.k \in chars

RECURSIVE StripLeft(_, _)
StripLeft(s, chars) ==
    IF s # <<>> /\ Strippable(s[1], chars) THEN StripLeft(Tail(s), chars) ELSE s

RECURSIVE StripRight(_, _)
StripRight(s, chars) ==
    IF s # <<>> /\ Strippable(s[Len(s)], chars)
    THEN StripRight(SubSeq(s, 1, Len(s) - 1), chars)
    ELSE s

\* str.strip(chars), the characters given by the kinds of token they make.
Strip(s, chars) == StripRight(StripLeft(s, chars), chars)

\* _parse_json: strip whitespace and backticks, then parse.
ParseJson(s) == ParsePartialJson(Strip(s, {"w", "f"}))

\* The match of the fence pattern: what follows the first fence and an
\* optional json tag, to the end of the text.
AfterFence(s) ==
    LET at == {i \in DOMAIN s : s[i] = Fence}
        f == Min(at)
        from == IF f < Len(s) /\ s[f + 1] = X("json") THEN f + 2 ELSE f + 1
    IN IF at = {} THEN s ELSE SubSeq(s, from, Len(s))

ParseJsonMarkdownUnfenced(s) == ParseJson(s)

\* parse_json_markdown: the whole text first, then the text after a fence.
ParseJsonMarkdown(s) ==
    IF ParseJson(s).ok THEN ParseJson(s) ELSE ParseJson(AfterFence(s))

\* JsonOutputParser().parse_result: whatever JSON value the text holds;
\* a text that does not parse raises OutputParserException.
JsonOutputParse(raw) ==
    LET r == ParseJsonMarkdown(Strip(raw, {"w"}))
    IN IF r.ok THEN r ELSE OutputParserException

(***************************************************************************)
(* Texts the chat model may return                                         *)
(***************************************************************************)
Prose == <<X("Sure!"), W(" ")>>
Trailer == <<W(" "), X("Done.")>>

\* Prose of several words that ends its line.
ProseLines ==
    <<X("I"), W(" "), X("will"), W(" "), X("use"), W(" "), X("this:"), W("\n")>>
\* Prose with a closing brace that nothing opened.
ProseStrayCloser == <<X("Sure"), P("}"), W(" ")>>
\* Prose that begins with a JSON value.
ProseLeadingValue == <<S("negative_comment"), W(" "), X("fits."), W(" ")>>
\* Prose that begins with an opening brace.
ProseOpenBrace == <<P("{"), X("thinking"), W(" ")>>
TrailerStrayCloser == <<W(" "), X("Done"), P("}")>>
TrailerOpenBrace == <<W(" "), X("see"), W(" "), P("{")>>

Proses ==
    {Prose, ProseLines, ProseStrayCloser, ProseLeadingValue, ProseOpenBrace}
Trailers == {Trailer, TrailerStrayCloser, TrailerOpenBrace}

\* Prose of words and whitespace only: no brace, no string, no JSON literal.
PlainProse(p) == \A i \in DOMAIN p : p[i].k \in {"x", "w"}

\* A fenced block tagged json around the text.
Fenced(text) == <<Fence, X("json"), W("\n")>> \o text \o <<W("\n"), Fence>>

\* Other JSON values than decisions.
OtherValues ==
    {JNull, JStr("Zelda"), JObj(<<>>),
     JObj("name" :> JStr("negative_comment")),
     JObj("arguments" :> JObj("game" :> JStr("Zelda"))),
     JObj(("name" :> JStr("negative_comment")) @@ ("arguments" :> JStr("Zelda"))),
     JObj(("name" :> JNull) @@ ("arguments" :> JObj("game" :> JStr("Zelda"))))}

Prefixes(text) == {SubSeq(text, 1, n) : n \in 0..Len(text)}

\* The JSON text alone or fenced, with prose before it, after it or both.
Wrappings(text) ==
    {text, Fenced(text)}
    \cup {p \o text : p \in Proses}
    \cup {p \o Fenced(text) : p \in Proses}
    \cup {text \o t : t \in Trailers}
    \cup {Fenced(text) \o t : t \in Trailers}
    \cup {p \o text \o t : p \in {Prose, ProseLines}, t \in Trailers}
    \cup {p \o Fenced(text) \o t : p \in {Prose, ProseLines}, t \in Trailers}

Raws ==
    UNION {Wrappings(Dumps(v)) : v \in Decisions \cup OtherValues}
    \cup Prefixes(Dumps(Decision("negative_comment", "game" :> JStr("DotA2"))))
    \cup Prefixes(Prose \o Fenced(Dumps(Decision("positive_comment", <<>>))))
    \cup {Prose, <<P("}")>>, <<P("{"), P("}"), P("}")>>,
          <<P("{"), S("name"), P(":"), S("a"), P(","), S("name"), P(":"),
            S("b"), P("}")>>,
          <<P("{"), S("name"), P(":"), S("a"), P(","), P("}")>>}

(***************************************************************************)
(* render_text_description                                                 *)
(***************************************************************************)
RECURSIVE Join(_, _)
\* sep.join(strs)
Join(strs, sep) ==
    IF strs = <<>> THEN ""
    ELSE IF Len(strs) = 1 THEN strs[1]
    ELSE strs[1] \o sep \o Join(Tail(strs), sep)

\* str(signature(tool.func)): (game: str) -> str
Signature(tool) ==
    "(" \o Join([i \in DOMAIN tool.params |->
                    tool.params[i].name \o ": " \o tool.params[i].type], ", ")
        \o ")" \o " -> " \o tool.ret

Reverse(seq) == [i \in DOMAIN seq |-> seq[Len(seq) + 1 - i]]

RenderReversed(ts) ==
    Join([i \in DOMAIN ts |->
            Reverse(ts)[i].name \o Signature(Reverse(ts)[i]) \o " - "
                \o Reverse(ts)[i].description], "\n")

\* One description per tool, f"{tool.name}{sig} - {tool.description}", joined
\* by newlines.
RenderTextDescription(ts) ==
    Join([i \in DOMAIN ts |->
            ts[i].name \o Signature(ts[i]) \o " - " \o ts[i].description], "\n")

(***************************************************************************)
(* Operations                                                              *)
(***************************************************************************)
Procs == 1..NumDispatchers

\* No call of tool_chain in flight: no locals.
Idle ==
    [pc |-> "idle", model_output |-> JNull, tool_map |-> <<>>,
     chosen_tool |-> JNull, arguments |-> JNull, out |-> Ok(JNull),
     calls |-> <<>>]

LookupNames ==
    ToolNames \cup {"Negative_Comment", "negative",
                    "Give negative comment to this game."}

Init ==
    /\ tools = <<>>
    /\ op = "init"
    /\ arg = JNull
    /\ result = Ok(JNull)
    /\ calls = <<>>
    /\ running = [p \in Procs |-> Idle]

\* tools = [negative_comment, positive_comment]: the list takes every tool
\* it is given, in order.
Register ==
    \E spec \in ToolPool :
        /\ Len(tools) < MaxTools
        /\ tools' = Append(tools, spec)
        /\ op' = "register"
        /\ arg' = spec
        /\ result' = Ok(JNull)
        /\ calls' = <<>>
        /\ UNCHANGED running

\* The same list, with tools whose function may raise.
RegisterAnyTool ==
    \E spec \in ToolPoolWithFailing :
        /\ Len(tools) < MaxTools
        /\ tools' = Append(tools, spec)
        /\ op' = "register"
        /\ arg' = spec
        /\ result' = Ok(JNull)
        /\ calls' = <<>>
        /\ UNCHANGED running

\* tool_map[name]
Lookup ==
    \E name \in LookupNames :
        /\ op' = "lookup"
        /\ arg' = name
        /\ result' = GetItem(ToolMap(tools), name)
        /\ calls' = <<>>
        /\ UNCHANGED <<tools, running>>

\* render_text_description(tools)
Render ==
    /\ op' = "render"
    /\ arg' = tools
    /\ result' = Ok(RenderTextDescription(tools))
    /\ calls' = <<>>
    /\ UNCHANGED <<tools, running>>

\* The list itself, in the order it was written.
List ==
    /\ op' = "list"
    /\ arg' = JNull
    /\ result' = Ok(tools)
    /\ calls' = <<>>
    /\ UNCHANGED <<tools, running>>

DispatchConsuming ==
    \E d \in Decisions :
        LET r == ToolChain(tools, d)
        IN /\ op' = "dispatch"
           /\ arg' = d
           /\ result' = r.out
           /\ calls' = r.calls
           /\ tools' = SelectSeq(tools, LAMBDA x : x.name # ToolName(d))
           /\ UNCHANGED running

\* ... | JsonOutputParser() | tool_chain, from the parsed decision on
Dispatch ==
    \E d \in Decisions :
        LET r == ToolChain(tools, d)
        IN /\ op' = "dispatch"
           /\ arg' = d
           /\ result' = r.out
           /\ calls' = r.calls
           /\ UNCHANGED <<tools, running>>

\* ... | JsonOutputParser() | RunnablePassthrough.assign(output=tool_chain)
DispatchAssign ==
    \E d \in Decisions :
        LET r == ToolChain(tools, d)
        IN /\ op' = "dispatch_assign"
           /\ arg' = d
           /\ result' = IF r.out.ok THEN Ok(Assign(d, r.out.v)) ELSE r.out
           /\ calls' = r.calls
           /\ UNCHANGED <<tools, running>>

\* The chat model has answered with one of the texts.
InitParse ==
    /\ tools = <<>>
    /\ op = "raw"
    /\ arg \in Raws
    /\ result = Ok(JNull)
    /\ calls = <<>>
    /\ running = [p \in Procs |-> Idle]

\* ... | model | JsonOutputParser(), from the text of the model on
Parse ==
    /\ op = "raw"
    /\ op' = "parse"
    /\ result' = JsonOutputParse(arg)
    /\ UNCHANGED <<tools, arg, calls, running>>

Next ==
    \/ Register
    \/ Lookup
    \/ List
    \/ Render
    \/ Dispatch
    \/ DispatchAssign

Spec == Init /\ [][Next]_vars

\* Dispatch over lists that may hold a tool whose function raises.
NextFailing ==
    \/ RegisterAnyTool
    \/ Dispatch
    \/ DispatchAssign

SpecFailing == Init /\ [][NextFailing]_vars

\* The parser alone, on every text: it reads neither the tools nor the
\* outcome of an earlier call.
NextParse == Parse

SpecParse == InitParse /\ [][NextParse]_vars

(***************************************************************************)
(* Calls of chain.invoke in flight together on one list of tools.  The     *)
(* list is built before the first call and no call assigns it.  Each call  *)
(* runs the statements of tool_chain one at a time on its own locals, and  *)
(* the steps of different calls interleave freely.                         *)
(***************************************************************************)
FrozenRegistries ==
    { <<>>,
      <<negative_comment, positive_comment>>,
      <<negative_comment, negative_comment_redefined>>,
      <<positive_comment, translate_comment>> }

ServedArgs == { <<>>, "game" :> JStr("Zelda"), "game" :> JStr("DotA2") }

ServedDecisions == { Decision(n, a) : n \in ToolNames, a \in ServedArgs }

InitServe ==
    /\ tools \in FrozenRegistries
    /\ op = "serve"
    /\ arg = JNull
    /\ result = Ok(JNull)
    /\ calls = <<>>
    /\ running = [p \in Procs |-> Idle]

\* A chosen_tool shared by the calls in flight instead of local to each.
ChosenToolShared(p) ==
    LET others == { q \in Procs : q # p /\ running[q].pc \in {"arguments", "invoke"} }
    IN IF others = {} THEN running[p].chosen_tool
       ELSE running[CHOOSE q \in others : TRUE].chosen_tool

\* chosen_tool is a local of the call of tool_chain that assigned it.
ChosenTool(p) == running[p].chosen_tool

\* chain.invoke(...) reaches RunnableLambda(tool_chain) with the decision.
Start(p) ==
    /\ running[p].pc = "idle"
    /\ \E d \in ServedDecisions :
          running' = [running EXCEPT ![p] =
                        [Idle EXCEPT !.pc = "tool_map", !.model_output = d]]
    /\ UNCHANGED <<tools, op, arg, result, calls>>

\* tool_map = {tool.name: tool for tool in tools}
BuildToolMap(p) ==
    /\ running[p].pc = "tool_map"
    /\ running' = [running EXCEPT ![p].tool_map = ToolMap(tools),
                                  ![p].pc = "chosen_tool"]
    /\ UNCHANGED <<tools, op, arg, result, calls>>

\* chosen_tool = tool_map[model_output['name']]
ChooseTool(p) ==
    /\ running[p].pc = "chosen_tool"
    /\ LET name == ItemGetter("name", running[p].model_output)
           r == GetItem(running[p].tool_map, name.v.s)
       IN running' =
            IF ~name.ok
            THEN [running EXCEPT ![p].out = name, ![p].pc = "done"]
            ELSE IF ~r.ok
            THEN [running EXCEPT ![p].out = r, ![p].pc = "done"]
            ELSE [running EXCEPT ![p].chosen_tool = r.v,
                                 ![p].pc = "arguments"]
    /\ UNCHANGED <<tools, op, arg, result, calls>>

\* itemgetter('arguments') of the returned sequence, on model_output
GetArguments(p) ==
    /\ running[p].pc = "arguments"
    /\ LET r == ItemGetter("arguments", running[p].model_output)
       IN running' =
            IF ~r.ok
            THEN [running EXCEPT ![p].out = r, ![p].pc = "done"]
            ELSE [running EXCEPT ![p].arguments = r.v, ![p].pc = "invoke"]
    /\ UNCHANGED <<tools, op, arg, result, calls>>

\* ... | chosen_tool: the tool runs on the arguments
InvokeTool(p) ==
    /\ running[p].pc = "invoke"
    /\ LET r == ToolInvoke(ChosenTool(p), running[p].arguments.m)
       IN running' = [running EXCEPT ![p].out = r.out,
                                     ![p].calls = r.calls,
                                     ![p].pc = "done"]
    /\ UNCHANGED <<tools, op, arg, result, calls>>

\* chain.invoke returns or raises; the locals of the call are gone.
Return(p) ==
    /\ running[p].pc = "done"
    /\ running' = [running EXCEPT ![p] = Idle]
    /\ UNCHANGED <<tools, op, arg, result, calls>>

NextServe ==
    \E p \in Procs :
        \/ Start(p)
        \/ BuildToolMap(p)
        \/ ChooseTool(p)
        \/ GetArguments(p)
        \/ InvokeTool(p)
        \/ Return(p)

SpecServe == InitServe /\ [][NextServe]_vars

(***************************************************************************)
(* Properties                                                              *)
(***************************************************************************)
IsDispatch == op \in {"dispatch", "dispatch_assign"}

\* The tool the registry holds under name n: the last one listed under it.
Registered(n) == tools[Max({i \in DOMAIN tools : tools[i].name = n})]

\* C1: a decision naming a tool that is not registered fails with the
\* lookup's error for that name (Python's KeyError carrying the name),
\* whatever its arguments; no tool function is called and nothing is
\* returned.
C1_UnknownToolFails ==
    (IsDispatch /\ ToolName(arg) \notin Names(tools)) =>
        /\ ~result.ok
        /\ result.err = "KeyError"
        /\ result.key = ToolName(arg)
        /\ calls = <<>>

C1_Witness ==
    /\ op = "dispatch"
    /\ tools = <<negative_comment, positive_comment>>
    /\ arg = Decision("translate_comment", "game" :> JStr("Zelda"))
    /\ ~result.ok

\* C2: registering a tool whose name is already present fails and leaves
\* the registry as it was: the lookup of the name still gives the first
\* registration.
C2_DuplicateRejected ==
    [][(op' = "register" /\ arg'.name \in Names(tools)) =>
          /\ ~result'.ok
          /\ tools' = tools
          /\ ToolMap(tools')[arg'.name] = ToolMap(tools)[arg'.name]]_vars

\* C3 as stated: a registered name and exactly the declared argument keys
\* are enough for dispatch to succeed with the tool's own result.
C3_ExactKeysSucceed ==
    (/\ op = "dispatch"
     /\ ToolName(arg) \in Names(tools)
     /\ DOMAIN Arguments(arg) = ParamNames(Registered(ToolName(arg)))) =>
        result = Ok(JStr(FuncBody(Registered(ToolName(arg)).func,
                                  Arguments(arg))))

WellTyped(tool, a) ==
    \A i \in DOMAIN tool.params :
        tool.params[i].name \in DOMAIN a =>
            HasType(a[tool.params[i].name], tool.params[i].type)

\* C3 (amended): a registered name, exactly the declared argument keys and
\* values of the declared types: dispatch succeeds, its output is the result
\* of the function of the tool registered under that name on the same
\* arguments, and that function is the only one called.
C3_TypedExactKeysDispatch ==
    (/\ op = "dispatch"
     /\ ToolName(arg) \in Names(tools)
     /\ DOMAIN Arguments(arg) = ParamNames(Registered(ToolName(arg)))
     /\ WellTyped(Registered(ToolName(arg)), Arguments(arg))) =>
        /\ result = Ok(JStr(FuncBody(Registered(ToolName(arg)).func,
                                     Arguments(arg))))
        /\ calls = <<[func |-> Registered(ToolName(arg)).func,
                      kwargs |-> Arguments(arg)]>>

\* Scenario B: both tools registered, positive_comment chosen for Zelda.
C3_Witness ==
    /\ op = "dispatch"
    /\ tools = <<negative_comment, positive_comment>>
    /\ arg = Decision("positive_comment", "game" :> JStr("Zelda"))
    /\ result = Ok(JStr("Zelda is the best game in the world !!!"))

\* C4: a registered name with argument keys that are not exactly the
\* declared parameters fails before any call, and the error names each
\* missing parameter and each extra key.
C4_ArgumentMismatchFails ==
    (/\ op = "dispatch"
     /\ ToolName(arg) \in Names(tools)
     /\ DOMAIN Arguments(arg) # ParamNames(Registered(ToolName(arg)))) =>
        /\ ~result.ok
        /\ calls = <<>>
        /\ result.err = "ValidationError"
        /\ \A k \in (ParamNames(Registered(ToolName(arg)))
                        \ DOMAIN Arguments(arg))
                    \cup (DOMAIN Arguments(arg)
                            \ ParamNames(Registered(ToolName(arg)))) :
              \E e \in result.errors : e.loc = k

\* C5: lookup succeeds exactly for a name equal to a registered tool's
\* name, and then gives a tool of that name; for every other name (not
\* registered, or only similar to a name or a description) it fails with the
\* KeyError for that name.
C5_LookupExactName ==
    op = "lookup" =>
        /\ result.ok <=> (\E i \in DOMAIN tools : tools[i].name = arg)
        /\ result.ok => result.v.name = arg
        /\ ~result.ok => (result.err = "KeyError" /\ result.key = arg)

C5_Witness ==
    /\ op = "lookup"
    /\ tools = <<negative_comment, positive_comment>>
    /\ arg = "Give negative comment to this game."
    /\ ~result.ok

\* C6: dispatch, lookup and list leave the list of tools as it was: same
\* tools, same order, whether the call returned or raised.
C6_ReadsKeepRegistry ==
    [][op' \in {"dispatch", "dispatch_assign", "lookup", "list"} =>
          tools' = tools]_vars

C6_Witness ==
    /\ op = "dispatch"
    /\ tools = <<negative_comment, positive_comment>>
    /\ ToolName(arg) = "negative_comment"
    /\ result.ok

\* C9: a successful dispatch through assign returns the decision's name and
\* arguments as they came in, plus the output of the one function called.
C9_ResultKeepsDecision ==
    (op = "dispatch_assign" /\ result.ok) =>
        /\ DOMAIN result.v.m = {"name", "arguments", "output"}
        /\ result.v.m["name"] = arg.m["name"]
        /\ result.v.m["arguments"] = arg.m["arguments"]
        /\ Len(calls) = 1
        /\ result.v.m["output"] =
              JStr(FuncBody(calls[1].func, calls[1].kwargs))

\* The last cell of the notebook.
C9_Witness ==
    /\ op = "dispatch_assign"
    /\ tools = <<negative_comment, positive_comment>>
    /\ result = Ok(JObj(("name" :> JStr("positive_comment"))
                     @@ ("arguments" :> JObj("game" :> JStr("Zelda")))
                     @@ ("output" :>
                           JStr("Zelda is the best game in the world !!!"))))

\* The parameters of a tool as the claim writes them: p1: t1, p2: t2
ParamList(tool) ==
    Join([i \in DOMAIN tool.params |->
            tool.params[i].name \o ": " \o tool.params[i].type], ", ")

\* C10 as stated: one line per tool, in order, each of the form
\* name(param1: type1, ...) -> description.
C10_LinesNameParamsDescription ==
    op = "render" =>
        result.v = Join([i \in DOMAIN tools |->
                            tools[i].name \o "(" \o ParamList(tools[i]) \o ")"
                                \o " -> " \o tools[i].description], "\n")

\* C10 (amended): one line per tool, in the order of the list, each of the
\* form name(param1: type1, ...) -> return type - description.
C10_LinesWithReturnType ==
    op = "render" =>
        result.v = Join([i \in DOMAIN tools |->
                            tools[i].name \o "(" \o ParamList(tools[i]) \o ")"
                                \o " -> " \o tools[i].ret \o " - "
                                \o tools[i].description], "\n")

\* render_text_description([negative_comment, positive_comment])
C10_Witness ==
    /\ op = "render"
    /\ tools = <<negative_comment, positive_comment>>
    /\ result.v =
         "negative_comment(game: str) -> str - Give negative comment to this game."
         \o "\n" \o
         "positive_comment(game: str) -> str - Give positive comment to this game."

\* A decision: an object with a string under name and an object under
\* arguments.
IsDecision(v) ==
    /\ IsObj(v)
    /\ {"name", "arguments"} \subseteq DOMAIN v.m
    /\ IsStr(v.m["name"])
    /\ IsObj(v.m["arguments"])

\* C7: parse returns only decisions: a text without a JSON object holding a
\* string name and an object arguments makes it fail, never return None or
\* another value.
C7_ParseReturnsOnlyDecisions ==
    (op = "parse" /\ result.ok) => IsDecision(result.v)

C8_OtherProse ==
    op = "parse" =>
        \A d \in Decisions :
            /\ arg = ProseStrayCloser \o Fenced(Dumps(d)) => result = Ok(JNull)
            /\ arg = ProseLeadingValue \o Fenced(Dumps(d)) =>
                   result = Ok(JStr("negative_comment"))
            /\ arg = ProseOpenBrace \o Fenced(Dumps(d)) => result = Ok(JObj(<<>>))
            /\ arg \in {Dumps(d) \o TrailerStrayCloser,
                        Fenced(Dumps(d)) \o TrailerStrayCloser} =>
                   result = Ok(JNull)
            /\ arg \in {Dumps(d) \o TrailerOpenBrace,
                        Fenced(Dumps(d)) \o TrailerOpenBrace} =>
                   result = Ok(d)
            /\ arg \in {Prose \o Dumps(d), ProseLines \o Dumps(d)} =>
                   result = OutputParserException

C11_ToolFailureWrapped ==
    IsDispatch =>
        /\ Len(calls) <= 1
        /\ \A i \in DOMAIN calls :
              /\ calls[i].func = Registered(ToolName(arg)).func
              /\ ~FuncCall(calls[i].func, calls[i].kwargs).ok =>
                    /\ ~result.ok
                    /\ result.err = "ToolExecutionError"
                    /\ result.cause = FuncCall(calls[i].func, calls[i].kwargs)

\* C11, the part the chain keeps: at most one call, of the function of the
\* resolved tool; when it raises, dispatch raises that same exception.
C11_OneCallNoFallback ==
    IsDispatch =>
        /\ Len(calls) <= 1
        /\ \A i \in DOMAIN calls :
              /\ calls[i].func = Registered(ToolName(arg)).func
              /\ ~FuncCall(calls[i].func, calls[i].kwargs).ok =>
                    result = FuncCall(calls[i].func, calls[i].kwargs)

\* C12: with the list of tools fixed, every call of dispatch that finishes,
\* whatever steps of other calls ran in between and whatever calls finished
\* or failed before it, has the result or error, and made the function call,
\* that the same decision gives when dispatched alone on that list; no call
\* changes the list.
C12_InterleavedSameAsAlone ==
    /\ tools \in FrozenRegistries
    /\ \A p \in Procs :
          running[p].pc = "done" =>
              /\ running[p].out = ToolChain(tools, running[p].model_output).out
              /\ running[p].calls =
                     ToolChain(tools, running[p].model_output).calls

\* Two calls overlap on the list of both mock tools: one has finished with
\* the negative comment while the other, started on another decision, has
\* chosen positive_comment and not yet run it.
C12_Witness ==
    /\ tools = <<negative_comment, positive_comment>>
    /\ running[1].pc = "done"
    /\ running[1].model_output =
           Decision("negative_comment", "game" :> JStr("Zelda"))
    /\ running[1].out =
           FuncCall("negative", "game" :> JStr("Zelda"))
    /\ running[2].pc = "invoke"
    /\ running[2].model_output =
           Decision("positive_comment", "game" :> JStr("DotA2"))
    /\ running[2].chosen_tool = positive_comment

====
